---- MODULE Spec2Model ----
(***************************************************************************)
(* The video-generation pipeline of the generate-product-video edge       *)
(* function (supabase/functions/generate-product-video/index.ts) and the  *)
(* video_generation_jobs row it updates.                                  *)
(*                                                                         *)
(* rec[j]  : the row of job j in video_generation_jobs.                   *)
(* run[r]  : the local variables and the position of invocation r of the  *)
(*           handler (one await point per position).                      *)
(* hist[r] : what invocation r has done so far (status values written,    *)
(*           external calls issued); the code does not read it.           *)
(* batch   : the locals and the position of generateVideosFromProducts    *)
(*           (src/lib/api.ts), the caller that submits jobs one by one.   *)
(***************************************************************************)
EXTENDS Integers, Sequences, FiniteSets, TLC

VARIABLES rec, run, hist, batch

vars == <<rec, run, hist, batch>>

\* ---- bounds of the model ----
\* pollSoraVideo recurses without a limit; the model stops following the
\* recursion after MaxDepth nested calls below the first one.
MaxDepth == 3
\* the fail messages the keyword test is tried on have at most MaxWords words
MaxWords == 2

\* ---- constants of the program ----
maxAttempts == 30
\* the remediation bound the specification recommends; the code has none
maxRemediationRounds == 2

\* the rows of video_generation_jobs and the invocations of the handler
Jobs == {1}
Runs == {1}
\* the invocations of the handler when a second request for the same job
\* arrives while the first is being served
Invocations == {1, 2}

NULL == "null"
UNDEFINED == "undefined"

\* ---- the row: CREATE TABLE video_generation_jobs, as inserted by
\* generateProductVideo (status 'pending', column defaults elsewhere) ----
NewRow(j) ==
  [ id               |-> j,
    user_id          |-> "user",
    listing_id       |-> "listing",
    product_title    |-> "title",
    hero_image_url   |-> "hero",
    edited_image_url |-> NULL,
    video_script     |-> NULL,
    video_url        |-> NULL,
    thumbnail_url    |-> NULL,
    status           |-> "pending",
    human_detected   |-> FALSE,
    image_edited     |-> FALSE,
    sora_task_id     |-> NULL,
    error_message    |-> NULL,
    retry_count      |-> 0,
    completed_at     |-> NULL ]

\* the locals of one invocation of the handler before it starts
IdleRun ==
  [ pc                |-> "idle",
    jobId             |-> NULL,
    productTitle      |-> NULL,
    heroImageUrl      |-> NULL,
    humanDetected     |-> FALSE,
    image             |-> NULL,
    processedImageUrl |-> NULL,
    imageEdited       |-> FALSE,
    videoScript       |-> NULL,
    taskId            |-> NULL,
    originalPrompt    |-> NULL,
    failMsg           |-> <<>>,
    sanitizedPrompt   |-> NULL,
    newTaskId         |-> NULL,
    attempt           |-> 0,
    depth             |-> 0,
    videoUrl          |-> NULL,
    error             |-> NULL,
    response          |-> NULL ]

NoHist ==
  [ statusLog      |-> <<>>,
    detectCalls    |-> 0,
    detected       |-> NULL,
    transformCalls |-> 0,
    publishCalls   |-> 0,
    scriptCalls    |-> 0,
    script         |-> NULL,
    tasksCreated   |-> 0,
    polls          |-> 0,
    lastPoll       |-> "none",
    sanitizeCalls  |-> 0,
    sanitized      |-> NULL,
    missingInput   |-> FALSE,
    token          |-> NULL ]

\* generateVideosFromProducts is not running
IdleBatch ==
  [ pc      |-> "idle",
    k       |-> 0,
    jobId   |-> NULL,
    results |-> <<>> ]

Init ==
  /\ rec  = [j \in Jobs |-> NewRow(j)]
  /\ run  = [r \in Invocations |-> IdleRun]
  /\ hist = [r \in Invocations |-> NoHist]
  /\ batch = IdleBatch

\* ---- helpers ----
Min(a, b) == IF a < b THEN a ELSE b

\* hist[r] becomes `new'
Note(r, new) == hist' = [hist EXCEPT ![r] = new]

\* the locals and the position of invocation r become `new'
Step(r, new) ==
  /\ run' = [run EXCEPT ![r] = new]
  /\ UNCHANGED batch

\* an exception propagates to the catch of the handler (line 115)
\* and the locals of the try block go out of scope
Throw(r, msg) ==
  /\ run' = [run EXCEPT ![r] =
              [IdleRun EXCEPT !.pc = "catch", !.jobId = run[r].jobId, !.error = msg]]
  /\ UNCHANGED batch

Row(r) == rec[run[r].jobId]

\* supabase.from('video_generation_jobs').update(...).eq('id', jobId)
Update(r, row) == rec' = [rec EXCEPT ![run[r].jobId] = row]

\* updateJobStatus without the .eq('id', jobId) filter
updateJobStatus_AllRows(r, status) ==
  /\ rec' = [j \in DOMAIN rec |-> [rec[j] EXCEPT !.status = status]]
  /\ hist' = [hist EXCEPT ![r].statusLog = Append(@, status)]

\* updateJobStatus(supabase, jobId, status)
updateJobStatus(r, status) ==
  /\ Update(r, [Row(r) EXCEPT !.status = status])
  /\ hist' = [hist EXCEPT ![r].statusLog = Append(@, status)]

\* ---- the keyword test of pollSoraVideo (lines 280-286) ----
\* A fail message is a sequence of words; toLowerCase acts word by word.
toLowerCase(w) ==
  CASE w = "Copyright"   -> "copyright"
    [] w = "POLICY"      -> "policy"
    [] w = "Third-Party" -> "third-party"
    [] w = "Content"     -> "content"
    [] OTHER             -> w

LowerMsg(msg) == [i \in 1..Len(msg) |-> toLowerCase(msg[i])]

includes(msg, kw) ==
  \E i \in 1..Len(msg) :
     /\ i + Len(kw) - 1 <= Len(msg)
     /\ SubSeq(msg, i, i + Len(kw) - 1) = kw

Keywords ==
  { <<"guardrail">>, <<"third-party", "content">>, <<"violate">>,
    <<"policy">>, <<"copyright">> }

\* the keyword test without toLowerCase
isGuardrailViolation_CaseSensitive(failMsg) ==
  \E kw \in Keywords : includes(failMsg, kw)

isGuardrailViolation(failMsg) ==
  \E kw \in Keywords : includes(LowerMsg(failMsg), kw)

\* data.data.failMsg || ''  : the messages the video service may send
FailMsgs ==
  { <<>>, <<"internal", "error">>, <<"Copyright", "violation">>,
    <<"Third-Party", "Content", "detected">> }

\* ---- the handler, Deno.serve (lines 21-122), one action per await ----

\* the locals of an invocation that has been handed the request body
\* { jobId, productTitle, heroImageUrl } (line 39 reads them after the auth
\* check; nothing in between uses them)
Started(jobId, productTitle, heroImageUrl) ==
  [IdleRun EXCEPT
     !.pc = "auth",
     !.jobId = jobId,
     !.productTitle = productTitle,
     !.heroImageUrl = heroImageUrl]

\* generateProductVideo (src/lib/api.ts) has inserted row j with status
\* 'pending' and invokes the function with jobId = j
Invoke(r, j) ==
  /\ run[r].pc = "idle"
  /\ rec[j].status = "pending"
  /\ Step(r, Started(j, rec[j].product_title, rec[j].hero_image_url))
  /\ hist' = [hist EXCEPT ![r] = NoHist]
  /\ UNCHANGED rec

\* lines 33-36: supabase.auth.getUser()
Auth(r) ==
  /\ run[r].pc = "auth"
  /\ \/ Step(r, [run[r] EXCEPT !.pc = "set_detecting"])
     \/ Throw(r, "Unauthorized")
  /\ UNCHANGED <<rec, hist>>

\* line 44
SetDetecting(r) ==
  /\ run[r].pc = "set_detecting"
  /\ updateJobStatus(r, "detecting_human")
  /\ Step(r, [run[r] EXCEPT !.pc = "download"])

\* lines 45-48: fetch(heroImageUrl) and the base64 conversion
Download(r) ==
  /\ run[r].pc = "download"
  /\ \/ /\ run[r].heroImageUrl # UNDEFINED
        /\ Step(r, [run[r] EXCEPT !.pc = "detect", !.image = "source"])
     \/ Throw(r, "fetch failed")
  /\ UNCHANGED <<rec, hist>>

\* ---- detectHuman (lines 128-148) ----

\* data.candidates?.[0]?.content?.parts?.[0]?.text : what the classifier may
\* answer; UNDEFINED is a response without a text
Tokens ==
  { "YES", "yes", "Yes", " YES\n", "YES.", "NO", "No", "MAYBE", "", UNDEFINED }

trim(text) ==
  CASE text = " YES\n" -> "YES"
    [] OTHER           -> text

toUpperCase(text) ==
  CASE text = "yes" -> "YES"
    [] text = "Yes" -> "YES"
    [] text = "No"  -> "NO"
    [] OTHER        -> text

\* the comparison of line 147 without trim()
detectHuman_NoTrim(text) ==
  IF text = UNDEFINED THEN FALSE ELSE toUpperCase(text) = "YES"

\* lines 146-147: text?.trim().toUpperCase() === 'YES'
detectHuman(text) ==
  IF text = UNDEFINED THEN FALSE ELSE toUpperCase(trim(text)) = "YES"

\* line 51 with the answer of the classifier kept in hist[r].token
DetectToken(r) ==
  /\ run[r].pc = "detect"
  /\ \/ \E text \in Tokens :
          /\ Step(r, [run[r] EXCEPT
                !.pc = "write_human", !.humanDetected = detectHuman(text)])
          /\ Note(r, [hist[r] EXCEPT
                !.detectCalls = @ + 1,
                !.detected = IF detectHuman(text) THEN "YES" ELSE "NO",
                !.token = text])
     \/ /\ Throw(r, "fetch failed")
        /\ Note(r, [hist[r] EXCEPT !.detectCalls = @ + 1])
  /\ UNCHANGED rec

\* line 51 and detectHuman (lines 128-148): text === 'YES'
Detect(r) ==
  /\ run[r].pc = "detect"
  /\ \/ \E b \in BOOLEAN :
          /\ Step(r, [run[r] EXCEPT !.pc = "write_human", !.humanDetected = b])
          /\ Note(r, [hist[r] EXCEPT
                !.detectCalls = @ + 1,
                !.detected = IF b THEN "YES" ELSE "NO"])
     \/ /\ Throw(r, "fetch failed")
        /\ Note(r, [hist[r] EXCEPT !.detectCalls = @ + 1])
  /\ UNCHANGED rec

\* line 60 with the test inverted: the edit branch is taken when no human
\* was detected
WriteHuman_Inverted(r) ==
  /\ run[r].pc = "write_human"
  /\ Update(r, [Row(r) EXCEPT !.human_detected = run[r].humanDetected])
  /\ Step(r, [run[r] EXCEPT
        !.pc = IF run[r].humanDetected THEN "resize" ELSE "set_editing",
        !.processedImageUrl = run[r].heroImageUrl,
        !.imageEdited = FALSE])
  /\ UNCHANGED hist

\* lines 52-60: human_detected is written, then the branch of Step 3 is chosen
WriteHuman(r) ==
  /\ run[r].pc = "write_human"
  /\ Update(r, [Row(r) EXCEPT !.human_detected = run[r].humanDetected])
  /\ Step(r, [run[r] EXCEPT
        !.pc = IF run[r].humanDetected THEN "set_editing" ELSE "resize",
        !.processedImageUrl = run[r].heroImageUrl,
        !.imageEdited = FALSE])
  /\ UNCHANGED hist

\* line 61
SetEditing(r) ==
  /\ run[r].pc = "set_editing"
  /\ updateJobStatus(r, "editing_image")
  /\ Step(r, [run[r] EXCEPT !.pc = "remove"])

\* the URL uploadToKie returns for the bytes it was given (line 199)
Published(image) == "kie/" \o image

\* removeHumanFromImage called again when the service returned no image
RemoveHuman_Retried(r) ==
  /\ run[r].pc = "remove"
  /\ Note(r, [hist[r] EXCEPT !.transformCalls = @ + 1])
  /\ \/ Step(r, [run[r] EXCEPT !.pc = "upload_edited", !.image = "edited"])
     \/ Step(r, run[r])
     \/ Throw(r, "fetch failed")
  /\ UNCHANGED rec

\* line 62 and removeHumanFromImage (lines 150-165):
\* data.generatedImage?.data || imageBase64
RemoveHuman(r) ==
  /\ run[r].pc = "remove"
  /\ Note(r, [hist[r] EXCEPT !.transformCalls = @ + 1])
  /\ \/ \E out \in {"edited", "source"} :
          Step(r, [run[r] EXCEPT !.pc = "upload_edited", !.image = out])
     \/ Throw(r, "fetch failed")
  /\ UNCHANGED rec

\* lines 63-64 and uploadToKie (lines 184-200)
UploadEdited(r) ==
  /\ run[r].pc = "upload_edited"
  /\ Note(r, [hist[r] EXCEPT !.publishCalls = @ + 1])
  /\ \/ Step(r, [run[r] EXCEPT
            !.pc = "write_edited",
            !.processedImageUrl = Published(run[r].image),
            !.imageEdited = TRUE])
     \/ Throw(r, "upload failed")
  /\ UNCHANGED rec

\* the update of lines 65-68 writing the URL to hero_image_url as well
WriteEdited_ReplacesHero(r) ==
  /\ run[r].pc = "write_edited"
  /\ Update(r, [Row(r) EXCEPT
        !.image_edited = run[r].imageEdited,
        !.edited_image_url = run[r].processedImageUrl,
        !.hero_image_url = run[r].processedImageUrl])
  /\ Step(r, [run[r] EXCEPT !.pc = "set_script"])
  /\ UNCHANGED hist

\* lines 65-68
WriteEdited(r) ==
  /\ run[r].pc = "write_edited"
  /\ Update(r, [Row(r) EXCEPT
        !.image_edited = run[r].imageEdited,
        !.edited_image_url = run[r].processedImageUrl])
  /\ Step(r, [run[r] EXCEPT !.pc = "set_script"])
  /\ UNCHANGED hist

\* line 72 and resizeImage (lines 167-182)
Resize(r) ==
  /\ run[r].pc = "resize"
  /\ Note(r, [hist[r] EXCEPT !.transformCalls = @ + 1])
  /\ \/ \E out \in {"optimized", "source"} :
          Step(r, [run[r] EXCEPT !.pc = "upload_optimized", !.image = out])
     \/ Throw(r, "fetch failed")
  /\ UNCHANGED rec

\* line 73
UploadOptimized(r) ==
  /\ run[r].pc = "upload_optimized"
  /\ Note(r, [hist[r] EXCEPT !.publishCalls = @ + 1])
  /\ \/ Step(r, [run[r] EXCEPT
            !.pc = "write_optimized",
            !.processedImageUrl = Published(run[r].image)])
     \/ Throw(r, "upload failed")
  /\ UNCHANGED rec

\* the update of the edit branch (65-68) copied into the else branch
WriteOptimized_MarksEdited(r) ==
  /\ run[r].pc = "write_optimized"
  /\ Update(r, [Row(r) EXCEPT
        !.image_edited = TRUE,
        !.edited_image_url = run[r].processedImageUrl])
  /\ Step(r, [run[r] EXCEPT !.pc = "set_script"])
  /\ UNCHANGED hist

\* line 74
WriteOptimized(r) ==
  /\ run[r].pc = "write_optimized"
  /\ Update(r, [Row(r) EXCEPT !.edited_image_url = run[r].processedImageUrl])
  /\ Step(r, [run[r] EXCEPT !.pc = "set_script"])
  /\ UNCHANGED hist

\* line 79
SetScript(r) ==
  /\ run[r].pc = "set_script"
  /\ updateJobStatus(r, "generating_script")
  /\ Step(r, [run[r] EXCEPT !.pc = "gen_script"])

\* lines 80-85 and generateVideoScript (lines 202-221): ...text?.trim() || ''
GenerateScript(r) ==
  /\ run[r].pc = "gen_script"
  /\ \/ \E text \in {"Y", ""} :
          /\ Step(r, [run[r] EXCEPT !.pc = "write_script", !.videoScript = text])
          /\ Note(r, [hist[r] EXCEPT !.scriptCalls = @ + 1, !.script = text])
     \/ /\ Throw(r, "fetch failed")
        /\ Note(r, [hist[r] EXCEPT !.scriptCalls = @ + 1])
  /\ UNCHANGED rec

\* Step 4 without the update of line 87
WriteScript_Skipped(r) ==
  /\ run[r].pc = "write_script"
  /\ Step(r, [run[r] EXCEPT !.pc = "set_video"])
  /\ UNCHANGED <<rec, hist>>

\* line 87
WriteScript(r) ==
  /\ run[r].pc = "write_script"
  /\ Update(r, [Row(r) EXCEPT !.video_script = run[r].videoScript])
  /\ Step(r, [run[r] EXCEPT !.pc = "set_video"])
  /\ UNCHANGED hist

\* line 91
SetVideo(r) ==
  /\ run[r].pc = "set_video"
  /\ updateJobStatus(r, "generating_video")
  /\ Step(r, [run[r] EXCEPT !.pc = "create"])

\* the id the video service gives to the n-th task invocation r creates
TaskId(r, n) == "task-" \o ToString(r) \o "-" \o ToString(n)

\* line 92 and createSoraVideo (lines 230-251)
CreateTask(r) ==
  /\ run[r].pc = "create"
  /\ \/ /\ Step(r, [run[r] EXCEPT
              !.pc = "write_task",
              !.taskId = TaskId(r, hist[r].tasksCreated + 1)])
        /\ hist' = [hist EXCEPT ![r].tasksCreated = @ + 1]
     \/ /\ Throw(r, "createTask failed")
        /\ UNCHANGED hist
  /\ UNCHANGED rec

\* the update of line 93 also putting edited_image_url back to the source
WriteTask_ResetsImage(r) ==
  /\ run[r].pc = "write_task"
  /\ Update(r, [Row(r) EXCEPT
        !.sora_task_id = run[r].taskId,
        !.edited_image_url = run[r].heroImageUrl])
  /\ Step(r, [run[r] EXCEPT
        !.pc = "poll",
        !.originalPrompt = run[r].videoScript,
        !.attempt = 0,
        !.depth = 0])
  /\ UNCHANGED hist

\* lines 93 and 98: the row gets the task id, pollSoraVideo is entered
WriteTask(r) ==
  /\ run[r].pc = "write_task"
  /\ Update(r, [Row(r) EXCEPT !.sora_task_id = run[r].taskId])
  /\ Step(r, [run[r] EXCEPT
        !.pc = "poll",
        !.originalPrompt = run[r].videoScript,
        !.attempt = 0,
        !.depth = 0])
  /\ UNCHANGED hist

\* ---- pollSoraVideo (lines 253-305) ----
\* run[r].depth counts the calls of pollSoraVideo nested inside the first;
\* attempt, taskId and originalPrompt are those of the innermost call.  The
\* outer calls only return what the inner call returns (line 297), so their
\* loop counters are never read again.

\* resultJson.resultUrls[0] (line 276)
ResultUrls == {"U.mp4", UNDEFINED}

\* one iteration of the loop: the delay (264), the fetch (266) and the
\* branch on data.data.state (274-301)
Polled(r, result) ==
  Note(r, [hist[r] EXCEPT
     !.polls = Min(@ + 1, maxAttempts + 1), !.lastPoll = result])

\* a loop whose iteration on a non-final state also updates the row
Poll_PendingWrites(r) ==
  /\ run[r].pc = "poll"
  /\ run[r].attempt < maxAttempts
  /\ Step(r, [run[r] EXCEPT !.attempt = @ + 1])
  /\ Polled(r, "pending")
  /\ Update(r, [Row(r) EXCEPT !.retry_count = @ + 1])

Poll(r) ==
  /\ run[r].pc = "poll"
  /\ run[r].attempt < maxAttempts
  /\ \/ \* any state other than 'success' and 'fail': attempt++
        /\ Step(r, [run[r] EXCEPT !.attempt = @ + 1])
        /\ Polled(r, "pending")
     \/ \* 'success'
        \E url \in ResultUrls :
          /\ Step(r, [run[r] EXCEPT
                !.pc = "complete", !.videoUrl = url, !.taskId = NULL,
                !.originalPrompt = NULL, !.attempt = 0, !.depth = 0])
          /\ Polled(r, "success " \o url)
     \/ \* 'fail'
        \E msg \in FailMsgs :
          IF isGuardrailViolation(msg)
          THEN /\ run[r].depth < MaxDepth
               /\ Step(r, [run[r] EXCEPT
                     !.pc = "sanitize", !.failMsg = msg, !.attempt = 0])
               /\ Polled(r, "fail, policy")
          ELSE /\ Throw(r, "Video generation failed")
               /\ Polled(r, "fail, other")
     \/ \* the fetch, response.json() or JSON.parse throws
        /\ Throw(r, "fetch failed")
        /\ Polled(r, "error")
  /\ UNCHANGED rec

\* line 304: the loop ran out of attempts
PollTimeout(r) ==
  /\ run[r].pc = "poll"
  /\ run[r].attempt >= maxAttempts
  /\ Throw(r, "Video generation timeout")
  /\ UNCHANGED <<rec, hist>>

\* what sanitizePrompt returns when the language service answers with a text
Rewritten(r) == "clean-" \o ToString(hist[r].sanitizeCalls + 1)

\* line 290 and sanitizePrompt (lines 307-325): ...text?.trim() || originalPrompt
Sanitize(r) ==
  /\ run[r].pc = "sanitize"
  /\ \/ \E text \in {Rewritten(r), run[r].originalPrompt} :
          /\ Step(r, [run[r] EXCEPT !.pc = "recreate", !.sanitizedPrompt = text])
          /\ Note(r, [hist[r] EXCEPT !.sanitizeCalls = @ + 1, !.sanitized = text])
     \/ /\ Throw(r, "fetch failed")
        /\ Note(r, [hist[r] EXCEPT !.sanitizeCalls = @ + 1])
  /\ UNCHANGED rec

\* line 291
Recreate(r) ==
  /\ run[r].pc = "recreate"
  /\ \/ /\ Step(r, [run[r] EXCEPT
              !.pc = "write_retry",
              !.newTaskId = TaskId(r, hist[r].tasksCreated + 1)])
        /\ hist' = [hist EXCEPT ![r].tasksCreated = @ + 1]
     \/ /\ Throw(r, "createTask failed")
        /\ UNCHANGED hist
  /\ UNCHANGED rec

\* line 297 calling pollSoraVideo with taskId instead of newTaskId
WriteRetry_PollsOldTask(r) ==
  /\ run[r].pc = "write_retry"
  /\ Update(r, [Row(r) EXCEPT
        !.sora_task_id = run[r].newTaskId,
        !.retry_count  = 1,
        !.video_script = run[r].sanitizedPrompt])
  /\ Step(r, [run[r] EXCEPT
        !.pc = "poll",
        !.originalPrompt = run[r].sanitizedPrompt,
        !.failMsg = <<>>,
        !.sanitizedPrompt = NULL,
        !.newTaskId = NULL,
        !.attempt = 0,
        !.depth = @ + 1])
  /\ UNCHANGED hist

\* the update of lines 292-296 without video_script
WriteRetry_KeepsScript(r) ==
  /\ run[r].pc = "write_retry"
  /\ Update(r, [Row(r) EXCEPT
        !.sora_task_id = run[r].newTaskId,
        !.retry_count  = 1])
  /\ Step(r, [run[r] EXCEPT
        !.pc = "poll",
        !.taskId = run[r].newTaskId,
        !.originalPrompt = run[r].sanitizedPrompt,
        !.failMsg = <<>>,
        !.sanitizedPrompt = NULL,
        !.newTaskId = NULL,
        !.attempt = 0,
        !.depth = @ + 1])
  /\ UNCHANGED hist

\* a remediation round that goes back to the script stage
WriteRetry_Reenters(r) ==
  /\ run[r].pc = "write_retry"
  /\ Update(r, [Row(r) EXCEPT
        !.sora_task_id = run[r].newTaskId,
        !.retry_count  = 1,
        !.video_script = run[r].sanitizedPrompt])
  /\ Step(r, [run[r] EXCEPT
        !.pc = "set_script",
        !.taskId = run[r].newTaskId,
        !.originalPrompt = run[r].sanitizedPrompt,
        !.failMsg = <<>>,
        !.sanitizedPrompt = NULL,
        !.newTaskId = NULL,
        !.attempt = 0,
        !.depth = @ + 1])
  /\ UNCHANGED hist

\* the update of lines 292-296 also putting the status back to the
\* script stage
WriteRetry_ResetsStatus(r) ==
  /\ run[r].pc = "write_retry"
  /\ Update(r, [Row(r) EXCEPT
        !.status       = "generating_script",
        !.sora_task_id = run[r].newTaskId,
        !.retry_count  = 1,
        !.video_script = run[r].sanitizedPrompt])
  /\ Step(r, [run[r] EXCEPT
        !.pc = "poll",
        !.taskId = run[r].newTaskId,
        !.originalPrompt = run[r].sanitizedPrompt,
        !.failMsg = <<>>,
        !.sanitizedPrompt = NULL,
        !.newTaskId = NULL,
        !.attempt = 0,
        !.depth = @ + 1])
  /\ UNCHANGED hist

\* the update of lines 292-296 without sora_task_id
WriteRetry_KeepsTaskId(r) ==
  /\ run[r].pc = "write_retry"
  /\ Update(r, [Row(r) EXCEPT
        !.retry_count  = 1,
        !.video_script = run[r].sanitizedPrompt])
  /\ Step(r, [run[r] EXCEPT
        !.pc = "poll",
        !.taskId = run[r].newTaskId,
        !.originalPrompt = run[r].sanitizedPrompt,
        !.failMsg = <<>>,
        !.sanitizedPrompt = NULL,
        !.newTaskId = NULL,
        !.attempt = 0,
        !.depth = @ + 1])
  /\ UNCHANGED hist

\* lines 292-297: the row is updated and pollSoraVideo calls itself
WriteRetry(r) ==
  /\ run[r].pc = "write_retry"
  /\ Update(r, [Row(r) EXCEPT
        !.sora_task_id = run[r].newTaskId,
        !.retry_count  = 1,
        !.video_script = run[r].sanitizedPrompt])
  /\ Step(r, [run[r] EXCEPT
        !.pc = "poll",
        !.taskId = run[r].newTaskId,
        !.originalPrompt = run[r].sanitizedPrompt,
        !.failMsg = <<>>,
        !.sanitizedPrompt = NULL,
        !.newTaskId = NULL,
        !.attempt = 0,
        !.depth = @ + 1])
  /\ UNCHANGED hist

\* videoUrl.replace('.mp4', '_thumbnail.jpg')
Thumbnail(videoUrl) ==
  IF videoUrl = "U.mp4" THEN "U_thumbnail.jpg" ELSE videoUrl

\* the locals of an invocation that has returned its response
Returned(r, kind) ==
  [IdleRun EXCEPT
     !.pc = "done",
     !.jobId = run[r].jobId,
     !.videoUrl = run[r].videoUrl,
     !.error = run[r].error,
     !.response = kind]

\* the success response without the update of lines 100-106
Complete_NoWrite(r) ==
  /\ run[r].pc = "complete"
  /\ IF run[r].videoUrl = UNDEFINED
     THEN /\ Throw(r, "TypeError")
          /\ UNCHANGED <<rec, hist>>
     ELSE /\ Step(r, Returned(r, "success"))
          /\ UNCHANGED <<rec, hist>>

\* lines 100-113: Step 7 and the success response
Complete(r) ==
  /\ run[r].pc = "complete"
  /\ IF run[r].videoUrl = UNDEFINED
     THEN /\ Throw(r, "TypeError")
          /\ UNCHANGED <<rec, hist>>
     ELSE /\ Update(r, [Row(r) EXCEPT
                !.status        = "completed",
                !.video_url     = run[r].videoUrl,
                !.thumbnail_url = Thumbnail(run[r].videoUrl),
                !.completed_at  = "now"])
          /\ hist' = [hist EXCEPT ![r].statusLog = Append(@, "completed")]
          /\ Step(r, Returned(r, "success"))

\* a catch that stores error.message in the row and leaves status alone
\* a catch that starts the pipeline over instead of returning
Catch_Retries(r) ==
  /\ run[r].pc = "catch"
  /\ Step(r, [IdleRun EXCEPT !.pc = "set_detecting", !.jobId = run[r].jobId])
  /\ UNCHANGED <<rec, hist>>

Catch_MessageOnly(r) ==
  /\ run[r].pc = "catch"
  /\ Update(r, [Row(r) EXCEPT !.error_message = run[r].error])
  /\ Step(r, Returned(r, "error"))
  /\ UNCHANGED hist

\* lines 115-121: the catch logs and answers 500; it writes nothing
Catch(r) ==
  /\ run[r].pc = "catch"
  /\ Step(r, Returned(r, "error"))
  /\ UNCHANGED <<rec, hist>>

Next ==
  \/ \E r \in Runs, j \in Jobs : Invoke(r, j)
  \/ \E r \in Runs : Auth(r)
  \/ \E r \in Runs : SetDetecting(r)
  \/ \E r \in Runs : Download(r)
  \/ \E r \in Runs : Detect(r)
  \/ \E r \in Runs : WriteHuman(r)
  \/ \E r \in Runs : SetEditing(r)
  \/ \E r \in Runs : RemoveHuman(r)
  \/ \E r \in Runs : UploadEdited(r)
  \/ \E r \in Runs : WriteEdited(r)
  \/ \E r \in Runs : Resize(r)
  \/ \E r \in Runs : UploadOptimized(r)
  \/ \E r \in Runs : WriteOptimized(r)
  \/ \E r \in Runs : SetScript(r)
  \/ \E r \in Runs : GenerateScript(r)
  \/ \E r \in Runs : WriteScript(r)
  \/ \E r \in Runs : SetVideo(r)
  \/ \E r \in Runs : CreateTask(r)
  \/ \E r \in Runs : WriteTask(r)
  \/ \E r \in Runs : Poll(r)
  \/ \E r \in Runs : PollTimeout(r)
  \/ \E r \in Runs : Sanitize(r)
  \/ \E r \in Runs : Recreate(r)
  \/ \E r \in Runs : WriteRetry(r)
  \/ \E r \in Runs : Complete(r)
  \/ \E r \in Runs : Catch(r)

Spec == Init /\ [][Next]_vars

\* ---- a request that lacks an input ----

\* the request bodies with productTitle or heroImageUrl (or both) missing
IncompleteBodies ==
  { b \in [productTitle : {"title", UNDEFINED}, heroImageUrl : {"hero", UNDEFINED}] :
      b.productTitle = UNDEFINED \/ b.heroImageUrl = UNDEFINED }

\* lines 38-39: the body is destructured as it comes; a field the request
\* lacks is undefined
InvokeRequest(r, j) ==
  /\ run[r].pc = "idle"
  /\ rec[j].status = "pending"
  /\ \E b \in IncompleteBodies :
        Step(r, Started(j, b.productTitle, b.heroImageUrl))
  /\ hist' = [hist EXCEPT ![r] = [NoHist EXCEPT !.missingInput = TRUE]]
  /\ UNCHANGED rec

NextRequest ==
  \/ Next
  \/ \E r \in Runs, j \in Jobs : InvokeRequest(r, j)

SpecRequest == Init /\ [][NextRequest]_vars

\* ---- a job is submitted again ----
Terminal == {"completed", "failed"}

\* the function is invoked once more with the id of a job an earlier
\* invocation has dealt with; nothing in the handler looks at the row
\* before writing to it
InvokeAgain(r, j) ==
  /\ run[r].pc = "done"
  /\ Step(r, Started(j, rec[j].product_title, rec[j].hero_image_url))
  /\ hist' = [hist EXCEPT ![r] = NoHist]
  /\ UNCHANGED rec

NextAgain ==
  \/ Next
  \/ \E r \in Runs, j \in Jobs : InvokeAgain(r, j)

SpecAgain == Init /\ [][NextAgain]_vars

\* ======================= the claims =======================

IsPrefix(s, t) == Len(s) <= Len(t) /\ SubSeq(t, 1, Len(s)) = s

\* the status values a subscriber of the row has seen: the 'pending' of the
\* insert, then what the invocation wrote
Observed(r) == <<"pending">> \o hist[r].statusLog

Stopped(r) == run[r].pc = "done"

StoppedOnError(r) == Stopped(r) /\ run[r].response = "error"

\* C1: whenever a stage of a run has raised an error and the run has
\* stopped, the row has status 'failed' and a non-null error_message.
C1_FailurePersisted ==
  \A r \in Runs :
    (StoppedOnError(r) /\ run[r].error # "Unauthorized") =>
       /\ Row(r).status = "failed"
       /\ Row(r).error_message # NULL

\* the status sequences of the specification: the image stage always shows
ClaimedSequences ==
  { <<"pending", "detecting_human", image, "generating_script",
      "generating_video", last>> :
      image \in {"editing_image", "optimizing_image"},
      last \in Terminal }

\* C2 as stated: what a run makes observable is a prefix of pending,
\* detecting_human, editing_image or optimizing_image, generating_script,
\* generating_video, completed or failed; the image status is never skipped.
C2_StatusSequenceClaimed ==
  \A r \in Runs :
    \E t \in ClaimedSequences : IsPrefix(Observed(r), t)

\* the sequences of the code: no status is written on the optimize branch
CodeSequences ==
  { <<"pending", "detecting_human", "editing_image", "generating_script",
      "generating_video", last>> : last \in Terminal }
  \cup
  { <<"pending", "detecting_human", "generating_script",
      "generating_video", last>> : last \in Terminal }

InLog(r, status) ==
  \E i \in 1..Len(hist[r].statusLog) : hist[r].statusLog[i] = status

\* C2 amended: what a run makes observable is a prefix of pending,
\* detecting_human, editing_image (written exactly when a human was detected;
\* the optimize branch writes no image status), generating_script,
\* generating_video, completed or failed; no write goes back to an earlier
\* stage.
C2_StatusSequence ==
  \A r \in Runs :
    /\ \E t \in CodeSequences : IsPrefix(Observed(r), t)
    /\ InLog(r, "editing_image") => Row(r).human_detected
    /\ (InLog(r, "generating_script") /\ Row(r).human_detected)
          => InLog(r, "editing_image")

\* a run of the optimize branch that went through every stage
C2_Witness ==
  \E r \in Runs :
    /\ Stopped(r)
    /\ hist[r].statusLog = <<"detecting_human", "generating_script",
                             "generating_video", "completed">>
    /\ ~ Row(r).human_detected

\* a run is in a remediation round from the policy-violation failure of a
\* poll until the resubmitted task is polled
InRemediation(r) == run[r].pc \in {"sanitize", "recreate", "write_retry"}

\* C3: retry_count never exceeds maxRemediationRounds, and a policy-violation
\* failure that arrives when that many rounds have been done starts no
\* further round (no sanitize call, no new task).
C3_RemediationBounded ==
  /\ \A j \in Jobs : rec[j].retry_count <= maxRemediationRounds
  /\ \A r \in Runs : InRemediation(r) => run[r].depth < maxRemediationRounds
  /\ \A r \in Runs : hist[r].sanitizeCalls <= maxRemediationRounds

\* C4: a run creates at most 1 + maxRemediationRounds video tasks, and the
\* poll routine is never active more than once at a time.
C4_TasksAndNestingBounded ==
  \A r \in Runs :
    /\ hist[r].tasksCreated <= 1 + maxRemediationRounds
    /\ run[r].depth = 0

\* C5: retry_count is 0 at first and, whenever a task is being polled, equals
\* the number of remediation rounds the run has performed.
C5_RetryCountCountsRounds ==
  \A r \in Runs :
    run[r].pc = "poll" => Row(r).retry_count = run[r].depth

\* C6: a run issues at most maxAttempts polls in total, remediation
\* resubmissions included.
C6_PollBudget ==
  \A r \in Runs : hist[r].polls <= maxAttempts

\* C7: a run that has written to the row does not stop before the row is
\* completed or failed.
C7_StopsOnlyTerminal ==
  \A r \in Runs :
    (Stopped(r) /\ hist[r].statusLog # <<>>) => Row(r).status \in Terminal

\* C8: video_url is non-null exactly when status is completed.
C8_VideoUrlIffCompleted ==
  \A j \in Jobs : (rec[j].video_url # NULL) <=> (rec[j].status = "completed")

\* C9: error_message is non-null exactly when status is failed.
C9_ErrorMessageIffFailed ==
  \A j \in Jobs : (rec[j].error_message # NULL) <=> (rec[j].status = "failed")

\* a run has stopped on the error of a stage; its row is not failed and has
\* no error_message
C9_Witness ==
  \E r \in Runs :
    /\ StoppedOnError(r)
    /\ hist[r].statusLog # <<>>
    /\ Row(r).status # "failed"
    /\ Row(r).error_message = NULL

\* C10: once a row is completed or failed, no step changes any field of it.
C10_TerminalImmutable ==
  [][\A j \in Jobs : rec[j].status \in Terminal => rec'[j] = rec[j]]_vars

\* C11 (scenario C): when every poll up to maxAttempts has returned a
\* non-final state and the run has stopped, the row is failed, its
\* error_message tells of the timeout and video_url is null.
C11_TimeoutScenario ==
  \A r \in Runs :
    ( /\ Stopped(r)
      /\ hist[r].polls = maxAttempts
      /\ hist[r].lastPoll = "pending"
      /\ hist[r].sanitizeCalls = 0 )
    => /\ Row(r).status = "failed"
       /\ Row(r).error_message = "Video generation timeout"
       /\ Row(r).video_url = NULL

\* C12 (scenario D): when the first poll has returned a failure whose reason
\* has no policy keyword and the run has stopped, the row is failed, no
\* further poll was issued, no further task was created, sanitize was not
\* called and retry_count is 0.
C12_NonRemediableScenario ==
  \A r \in Runs :
    ( /\ Stopped(r)
      /\ hist[r].polls = 1
      /\ hist[r].lastPoll = "fail, other" )
    => /\ Row(r).status = "failed"
       /\ hist[r].tasksCreated = 1
       /\ hist[r].sanitizeCalls = 0
       /\ Row(r).retry_count = 0

\* scenario B has happened in run r: the classifier said YES, the script was
\* "Y", the first poll failed with a policy reason, sanitize returned a
\* rewritten prompt, and the first poll of the second task returned U.mp4
ScenarioB(r) ==
  /\ Stopped(r)
  /\ hist[r].detected = "YES"
  /\ hist[r].script = "Y"
  /\ hist[r].sanitizeCalls = 1
  /\ hist[r].sanitized = "clean-1"
  /\ hist[r].tasksCreated = 2
  /\ hist[r].polls = 2
  /\ hist[r].lastPoll = "success U.mp4"

\* C13 (scenario B): after one remediation round that succeeds, the row is
\* completed, video_script is the sanitized prompt, video_url the result,
\* retry_count 1 and sora_task_id the id of the second task.
C13_RemediationScenario ==
  \A r \in Runs :
    ScenarioB(r) =>
      /\ Row(r).status = "completed"
      /\ Row(r).video_script = "clean-1"
      /\ Row(r).video_url = "U.mp4"
      /\ Row(r).retry_count = 1
      /\ Row(r).sora_task_id = TaskId(r, 2)

C13_Witness == \E r \in Runs : ScenarioB(r)

\* scenario A has happened in run r: the classifier said NO, the image was
\* transformed and published, the script was written, one task was created
\* and its first poll returned U.mp4
ScenarioA(r) ==
  /\ hist[r].detected = "NO"
  /\ hist[r].transformCalls = 1
  /\ hist[r].publishCalls = 1
  /\ hist[r].script = "Y"
  /\ hist[r].sanitizeCalls = 0
  /\ hist[r].polls = 1
  /\ hist[r].lastPoll = "success U.mp4"

\* C14 (scenario A): after a clean run without a subject the row is
\* completed with video_url the result, human_detected and image_edited
\* false and retry_count 0; one task was created, and once the first poll
\* has succeeded no other poll or task follows.
C14_CleanScenario ==
  /\ [](\A r \in Runs :
          (ScenarioA(r) /\ Stopped(r)) =>
             /\ Row(r).status = "completed"
             /\ Row(r).video_url = "U.mp4"
             /\ Row(r).human_detected = FALSE
             /\ Row(r).image_edited = FALSE
             /\ Row(r).retry_count = 0
             /\ hist[r].tasksCreated = 1)
  /\ [][\A r \in Runs :
          ScenarioA(r) =>
             /\ hist'[r].polls = hist[r].polls
             /\ hist'[r].tasksCreated = hist[r].tasksCreated]_vars

C14_Witness == \E r \in Runs : ScenarioA(r) /\ Stopped(r)

\* sanitizePrompt is called only from the position that follows a poll whose
\* failure reason matched the keyword test, and never after another result
SanitizeOnlyAfterPolicyFailure ==
  [][\A r \in Runs :
        /\ hist'[r].sanitizeCalls > hist[r].sanitizeCalls =>
              /\ hist[r].lastPoll = "fail, policy"
              /\ isGuardrailViolation(run[r].failMsg)
        /\ hist[r].lastPoll = "fail, other" =>
              hist'[r].sanitizeCalls = hist[r].sanitizeCalls]_vars

\* a run that has stopped on a failure without a policy keyword has left the
\* row failed
OtherFailureEndsFailed ==
  \A r \in Runs :
    (Stopped(r) /\ hist[r].lastPoll = "fail, other") => Row(r).status = "failed"

\* C15: sanitize is called only right after a poll failed with a reason that
\* matches the policy keywords; a failure with any other reason sends the job
\* to failed without a sanitize call.
C15_SanitizeOnlyOnPolicyFailure ==
  SanitizeOnlyAfterPolicyFailure /\ []OtherFailureEndsFailed

\* C16 as stated: whenever status is generating_video, video_script and
\* sora_task_id are both non-null.
C16_VideoStatusHasDataClaimed ==
  \A j \in Jobs :
    rec[j].status = "generating_video" =>
       /\ rec[j].video_script # NULL
       /\ rec[j].sora_task_id # NULL

\* a task of the run is being polled or replaced
InPollRoutine(r) ==
  run[r].pc \in {"poll", "sanitize", "recreate", "write_retry"}

\* C16 amended: whenever status is generating_video, video_script is
\* non-null; sora_task_id is written after the status, once the task has been
\* created, and is non-null whenever a task is polled.
C16_VideoStatusHasData ==
  /\ \A j \in Jobs :
       rec[j].status = "generating_video" => rec[j].video_script # NULL
  /\ \A r \in Runs :
       InPollRoutine(r) =>
          /\ Row(r).status = "generating_video"
          /\ Row(r).sora_task_id # NULL

\* the status is already generating_video and the task is not yet created
C16_Witness ==
  \E r \in Runs :
    /\ run[r].pc = "create"
    /\ Row(r).status = "generating_video"
    /\ Row(r).video_script # NULL
    /\ Row(r).sora_task_id = NULL

\* the last status run r has written
LastWritten(r) ==
  IF hist[r].statusLog = <<>> THEN NULL
  ELSE hist[r].statusLog[Len(hist[r].statusLog)]

\* C17: whenever a run has brought the status to generating_script,
\* generating_video or completed, edited_image_url is non-null and
\* human_detected and image_edited have the values of that run's image
\* stage (both true if the classifier said YES, both false otherwise).
C17_ImageDataBeforeScript ==
  \A r \in Runs :
    LastWritten(r) \in {"generating_script", "generating_video", "completed"} =>
       /\ Row(r).edited_image_url # NULL
       /\ Row(r).human_detected = (hist[r].detected = "YES")
       /\ Row(r).image_edited = (hist[r].detected = "YES")

\* ---- two requests for the same pending job ----

\* a poll that the video service answers with a final state other than a
\* policy failure
PollFinal(r) ==
  /\ Poll(r)
  /\ run'[r].pc \notin {"poll", "sanitize"}

\* both requests arrive while the row is pending (Invoke); their steps
\* interleave at the await points
NextRace ==
  \/ \E r \in Invocations, j \in Jobs : Invoke(r, j)
  \/ \E r \in Invocations : Auth(r)
  \/ \E r \in Invocations : SetDetecting(r)
  \/ \E r \in Invocations : Download(r)
  \/ \E r \in Invocations : Detect(r)
  \/ \E r \in Invocations : WriteHuman(r)
  \/ \E r \in Invocations : SetEditing(r)
  \/ \E r \in Invocations : RemoveHuman(r)
  \/ \E r \in Invocations : UploadEdited(r)
  \/ \E r \in Invocations : WriteEdited(r)
  \/ \E r \in Invocations : Resize(r)
  \/ \E r \in Invocations : UploadOptimized(r)
  \/ \E r \in Invocations : WriteOptimized(r)
  \/ \E r \in Invocations : SetScript(r)
  \/ \E r \in Invocations : GenerateScript(r)
  \/ \E r \in Invocations : WriteScript(r)
  \/ \E r \in Invocations : SetVideo(r)
  \/ \E r \in Invocations : CreateTask(r)
  \/ \E r \in Invocations : WriteTask(r)
  \/ \E r \in Invocations : PollFinal(r)
  \/ \E r \in Invocations : Complete(r)
  \/ \E r \in Invocations : Catch(r)

SpecRace == Init /\ [][NextRace]_vars

\* invocation r has written to the row or called an external service
PastPending(r) ==
  \/ hist[r].statusLog # <<>>
  \/ hist[r].detectCalls > 0
  \/ hist[r].tasksCreated > 0

\* C18: of two invocations for the same job id (Jobs has one job) at most one gets past the
\* pending status; the other writes nothing, calls no service and creates
\* no task.
C18_SingleWriter ==
  \A r, q \in Invocations :
    r # q => ~ (PastPending(r) /\ PastPending(q))

\* what the catch block may leave in the row: nothing, or the failure
FailureWriteOnly(old, new) ==
  \/ new = old
  \/ new = [old EXCEPT !.status = "failed", !.error_message = new.error_message]

\* C19: once a stage of a run has raised an error, the run only returns:
\* it issues no further external call, writes no status, and changes the
\* row at most by a failed/error_message write.
C19_HaltsAfterError ==
  [][\A r \in Runs :
       (run[r].pc = "catch" \/ StoppedOnError(r)) =>
          /\ run'[r].pc = "done"
          /\ hist'[r] = hist[r]
          /\ FailureWriteOnly(Row(r), rec'[run[r].jobId])]_vars

\* a run stopped by an error of the script stage, after its image stage
C19_Witness ==
  \E r \in Runs :
    /\ StoppedOnError(r)
    /\ hist[r].scriptCalls > 0
    /\ hist[r].publishCalls > 0
    /\ hist[r].tasksCreated = 0

\* C20: the bytes of the source image are never published as the processed
\* image (a transformer that returns no image fails the job instead), and
\* image_edited is true only for an image the transformer edited.
C20_NoSilentFallback ==
  \A r \in Runs :
    run[r].pc # "idle" =>
    /\ run[r].processedImageUrl # Published("source")
    /\ Row(r).edited_image_url # Published("source")
    /\ Row(r).image_edited => Row(r).edited_image_url = Published("edited")

\* C21: when the script writer produces no script text, no video task is
\* created for the job (createSoraVideo is never called with an empty
\* prompt) and the run does not go on to the video stage.
C21_NoTaskWithoutScript ==
  \A r \in Runs :
    hist[r].script = "" =>
       /\ hist[r].tasksCreated = 0
       /\ "generating_video" \notin { hist[r].statusLog[i] : i \in DOMAIN hist[r].statusLog }

\* the URLs the asset publisher can have returned for a processed image
PublishedUrls == { Published(bytes) : bytes \in {"edited", "optimized", "source"} }

\* C23: once a run has passed the image stage, image_edited equals
\* human_detected, and edited_image_url is a URL the asset publisher
\* returned, different from hero_image_url.
C23_EditedIffDetected ==
  \A r \in Runs :
    LastWritten(r) \in {"generating_script", "generating_video", "completed"} =>
       /\ Row(r).image_edited = Row(r).human_detected
       /\ Row(r).edited_image_url \in PublishedUrls
       /\ Row(r).edited_image_url # Row(r).hero_image_url

\* C24: a run calls the image transformer at most once, after the
\* classifier has answered: removeHumanFromImage exactly when the answer was
\* YES, resizeImage exactly when it was NO; a run that has passed the image
\* stage has called it exactly once.
C24_OneTransformPerRun ==
  /\ [](\A r \in Runs :
          /\ hist[r].transformCalls <= 1
          /\ InLog(r, "generating_script") => hist[r].transformCalls = 1)
  /\ [][\A r \in Runs :
          hist'[r].transformCalls > hist[r].transformCalls =>
             /\ hist[r].transformCalls = 0
             /\ hist[r].detectCalls = 1
             /\ (run[r].pc = "remove") = (hist[r].detected = "YES")
             /\ (run[r].pc = "resize") = (hist[r].detected = "NO")]_vars

\* the classifier said YES and removeHumanFromImage has been called once
C24_Witness ==
  \E r \in Runs :
    /\ run[r].pc = "upload_edited"
    /\ hist[r].detected = "YES"
    /\ hist[r].transformCalls = 1

C29_RemediationKeepsStatus ==
  [][\A r \in Runs :
       InPollRoutine(r) =>
          /\ rec[run[r].jobId].status = "generating_video"
          /\ rec'[run[r].jobId].status = "generating_video"
          /\ hist'[r].statusLog = hist[r].statusLog]_vars

\* a remediation round has written the new task and prompt to the row and
\* the status is still generating_video
C29_Witness ==
  \E r \in Runs :
    /\ run[r].pc = "poll"
    /\ run[r].depth >= 1
    /\ Row(r).retry_count = 1
    /\ Row(r).sora_task_id = run[r].taskId
    /\ Row(r).status = "generating_video"

\* C30: in a remediation round the row is updated with the sanitized prompt
\* before the new task is created: whenever the task for the new prompt
\* exists, video_script already is that prompt and retry_count counts the
\* round.
C30_PersistBeforeResubmit ==
  \A r \in Runs :
    run[r].pc = "write_retry" =>
       /\ Row(r).video_script = run[r].sanitizedPrompt
       /\ Row(r).retry_count >= 1

\* C22: a run whose request lacks a required input calls no external
\* service and writes no status other than failed; when it has stopped the
\* row is failed.
C22_ValidationError ==
  \A r \in Runs :
    hist[r].missingInput =>
       /\ hist[r].detectCalls = 0
       /\ hist[r].scriptCalls = 0
       /\ hist[r].tasksCreated = 0
       /\ hist[r].statusLog \in {<<>>, <<"failed">>}
       /\ Stopped(r) => Row(r).status = "failed"

\* ---- two jobs, each with its own invocation, at the same time ----

PairJobs == {1, 2}

InitPair ==
  /\ rec  = [j \in PairJobs |-> NewRow(j)]
  /\ run  = [r \in Invocations |-> IdleRun]
  /\ hist = [r \in Invocations |-> NoHist]
  /\ batch = IdleBatch

\* a poll that the video service answers with 'success' or 'fail'
PollAnswered(r) ==
  /\ Poll(r)
  /\ hist'[r].lastPoll # "pending"

\* invocation j serves job j; the steps of the two interleave at the await
\* points.  The service answers every poll of job 1 with a final state (a
\* policy failure included) and every poll of job 2 with a final state
\* other than a policy failure.
NextPair ==
  \/ \E j \in PairJobs : Invoke(j, j)
  \/ \E r \in Invocations : Auth(r)
  \/ \E r \in Invocations : SetDetecting(r)
  \/ \E r \in Invocations : Download(r)
  \/ \E r \in Invocations : Detect(r)
  \/ \E r \in Invocations : WriteHuman(r)
  \/ \E r \in Invocations : SetEditing(r)
  \/ \E r \in Invocations : RemoveHuman(r)
  \/ \E r \in Invocations : UploadEdited(r)
  \/ \E r \in Invocations : WriteEdited(r)
  \/ \E r \in Invocations : Resize(r)
  \/ \E r \in Invocations : UploadOptimized(r)
  \/ \E r \in Invocations : WriteOptimized(r)
  \/ \E r \in Invocations : SetScript(r)
  \/ \E r \in Invocations : GenerateScript(r)
  \/ \E r \in Invocations : WriteScript(r)
  \/ \E r \in Invocations : SetVideo(r)
  \/ \E r \in Invocations : CreateTask(r)
  \/ \E r \in Invocations : WriteTask(r)
  \/ PollAnswered(1)
  \/ PollFinal(2)
  \/ \E r \in Invocations : Sanitize(r)
  \/ \E r \in Invocations : Recreate(r)
  \/ \E r \in Invocations : WriteRetry(r)
  \/ \E r \in Invocations : Complete(r)
  \/ \E r \in Invocations : Catch(r)

SpecPair == InitPair /\ [][NextPair]_vars

\* the job of the invocation that takes a step
JobOf(r) == IF run[r].pc = "idle" THEN run'[r].jobId ELSE run[r].jobId

\* C26: a step of the invocation for one job leaves the row of every other
\* job as it is, and the row of a job shows what its own invocation did: the
\* status that invocation wrote last and a task that invocation created.
C26_JobsIndependent ==
  /\ [](\A j \in PairJobs :
          /\ rec[j].status =
               (IF hist[j].statusLog = <<>> THEN "pending" ELSE LastWritten(j))
          /\ \/ rec[j].sora_task_id = NULL
             \/ \E n \in 1..hist[j].tasksCreated : rec[j].sora_task_id = TaskId(j, n))
  /\ [][\A r \in Invocations :
          run'[r] # run[r] =>
             \A j \in PairJobs : j # JobOf(r) => rec'[j] = rec[j]]_vars

\* both invocations are polling their own task, each row holding the task
\* of its own invocation
C26_Witness ==
  /\ run[1].pc = "poll"
  /\ run[2].pc = "poll"
  /\ rec[1].sora_task_id = TaskId(1, 1)
  /\ rec[2].sora_task_id = TaskId(2, 1)

\* ---- generateVideosFromProducts and generateProductVideo (api.ts) ----

\* the products handed to generateVideosFromProducts, in the order of the
\* loop; the row inserted for product k gets the id k
Products == {1, 2}

InitBatch ==
  /\ rec  = [j \in {} |-> NewRow(j)]
  /\ run  = [r \in Invocations |-> IdleRun]
  /\ hist = [r \in Invocations |-> NoHist]
  /\ batch = [IdleBatch EXCEPT !.pc = "loop", !.k = 1]

\* results.push(...) and the next iteration of the for loop
Pushed(result) ==
  [batch EXCEPT
     !.pc = "loop", !.k = @ + 1, !.jobId = NULL,
     !.results = Append(@, result)]

\* api.ts 406-419 and 444: the loop takes the next product, or returns; a
\* product without an image is skipped with 'No hero image found'
NextProduct ==
  /\ batch.pc = "loop"
  /\ IF batch.k \in Products
     THEN \/ batch' = [batch EXCEPT !.pc = "getUser"]
          \/ batch' = Pushed("No hero image found")
     ELSE batch' = [batch EXCEPT !.pc = "returned"]
  /\ UNCHANGED <<rec, run, hist>>

\* api.ts 332-333; the throw is caught at 436
GetUser ==
  /\ batch.pc = "getUser"
  /\ \/ batch' = [batch EXCEPT !.pc = "insert"]
     \/ batch' = Pushed("Not authenticated")
  /\ UNCHANGED <<rec, run, hist>>

\* the insert without the test of line 348
InsertJob_IgnoresError ==
  /\ batch.pc = "insert"
  /\ \/ /\ rec' = [j \in DOMAIN rec \cup {batch.k} |->
                     IF j = batch.k THEN NewRow(j) ELSE rec[j]]
        /\ batch' = [batch EXCEPT !.pc = "invoke", !.jobId = batch.k]
     \/ /\ batch' = [batch EXCEPT !.pc = "invoke", !.jobId = batch.k]
        /\ UNCHANGED rec
  /\ UNCHANGED <<run, hist>>

\* api.ts 335-348: the row is inserted with status 'pending';
\* if (jobError) throw jobError
InsertJob ==
  /\ batch.pc = "insert"
  /\ \/ /\ rec' = [j \in DOMAIN rec \cup {batch.k} |->
                     IF j = batch.k THEN NewRow(j) ELSE rec[j]]
        /\ batch' = [batch EXCEPT !.pc = "invoke", !.jobId = batch.k]
     \/ /\ batch' = Pushed("insert failed")
        /\ UNCHANGED rec
  /\ UNCHANGED <<run, hist>>

\* api.ts 350-359: supabase.functions.invoke with jobId: job.id; the handler
\* starts with that body, or the request does not reach it
CallFunction ==
  /\ batch.pc = "invoke"
  /\ \/ /\ run[batch.jobId].pc = "idle"
        /\ run' = [run EXCEPT ![batch.jobId] = Started(batch.jobId, "title", "hero")]
        /\ hist' = [hist EXCEPT ![batch.jobId] = NoHist]
        /\ batch' = [batch EXCEPT !.pc = "await"]
     \/ /\ batch' = Pushed("invoke failed")
        /\ UNCHANGED <<run, hist>>
  /\ UNCHANGED rec

\* api.ts 361-363 and 428-441: the response of the function arrives
Respond ==
  /\ batch.pc = "await"
  /\ run[batch.jobId].pc = "done"
  /\ batch' = Pushed(run[batch.jobId].response)
  /\ UNCHANGED <<rec, run, hist>>

\* the caller and the handler; the video service answers every poll with a
\* final state other than a policy failure
NextBatch ==
  \/ NextProduct
  \/ GetUser
  \/ InsertJob
  \/ CallFunction
  \/ Respond
  \/ \E r \in Invocations : Auth(r)
  \/ \E r \in Invocations : SetDetecting(r)
  \/ \E r \in Invocations : Download(r)
  \/ \E r \in Invocations : Detect(r)
  \/ \E r \in Invocations : WriteHuman(r)
  \/ \E r \in Invocations : SetEditing(r)
  \/ \E r \in Invocations : RemoveHuman(r)
  \/ \E r \in Invocations : UploadEdited(r)
  \/ \E r \in Invocations : WriteEdited(r)
  \/ \E r \in Invocations : Resize(r)
  \/ \E r \in Invocations : UploadOptimized(r)
  \/ \E r \in Invocations : WriteOptimized(r)
  \/ \E r \in Invocations : SetScript(r)
  \/ \E r \in Invocations : GenerateScript(r)
  \/ \E r \in Invocations : WriteScript(r)
  \/ \E r \in Invocations : SetVideo(r)
  \/ \E r \in Invocations : CreateTask(r)
  \/ \E r \in Invocations : WriteTask(r)
  \/ \E r \in Invocations : PollFinal(r)
  \/ \E r \in Invocations : Complete(r)
  \/ \E r \in Invocations : Catch(r)

SpecBatch == InitBatch /\ [][NextBatch]_vars

\* invocation j of the handler has started and has not answered yet
InProgress(j) == run[j].pc \notin {"idle", "done"}

\* C27: the jobs of a batch are generated in parallel: while the video of
\* one product is being generated and products remain, the batch can take
\* the next product.
C27_BatchParallel ==
  (batch.k + 1 \in Products /\ \E j \in Products : InProgress(j)) =>
     ENABLED NextProduct

\* C28: a row comes into being with status pending, before any invocation
\* for it; the handler is started only for a row that exists and is still
\* pending, with that row's id as jobId; a product whose insert failed has
\* no invocation.
C28_RowBeforeInvoke ==
  /\ [](\A r \in Products :
          run[r].pc # "idle" =>
             /\ r \in DOMAIN rec
             /\ run[r].jobId = rec[r].id)
  /\ [][/\ \A j \in Products :
             (j \notin DOMAIN rec /\ j \in DOMAIN rec') =>
                /\ rec'[j].status = "pending"
                /\ run[j].pc = "idle"
                /\ run'[j].pc = "idle"
        /\ \A r \in Products :
             (run[r].pc = "idle" /\ run'[r].pc # "idle") =>
                /\ r \in DOMAIN rec
                /\ rec[r].status = "pending"
                /\ run'[r].jobId = rec[r].id]_vars

\* the insert of the first product failed and the second product's row was
\* inserted and its invocation started: only job 2 has a row and a run
C28_Witness ==
  /\ DOMAIN rec = {2}
  /\ run[1].pc = "idle"
  /\ run[2].pc = "auth"
  /\ batch.results = <<"insert failed">>

\* C31: whenever a poll is about to be issued, the task polled is the one
\* sora_task_id names, and that is the task the run created last; a task
\* that was superseded is not polled again.
C31_PollsCurrentTask ==
  \A r \in Runs :
    run[r].pc = "poll" =>
       /\ run[r].taskId = Row(r).sora_task_id
       /\ run[r].taskId = TaskId(r, hist[r].tasksCreated)

\* the second task of a run is being polled after a remediation round
C31_Witness ==
  \E r \in Runs :
    /\ run[r].pc = "poll"
    /\ hist[r].tasksCreated = 2
    /\ run[r].taskId = TaskId(r, 2)
    /\ Row(r).sora_task_id = TaskId(r, 2)

\* C32: whenever a poll is about to be issued, video_script is the prompt
\* that was submitted for the task polled; video_script changes only when
\* the script stage writes it (once in a run) and when a remediation round
\* that resubmitted writes the sanitized prompt, once per round.
C32_ScriptIsPolledPrompt ==
  /\ [](\A r \in Runs :
          run[r].pc = "poll" => Row(r).video_script = run[r].originalPrompt)
  /\ [][\A r \in Runs :
          run[r].pc # "idle" =>
             /\ rec'[run[r].jobId].video_script # rec[run[r].jobId].video_script =>
                   \/ /\ run[r].pc = "write_script"
                      /\ hist[r].scriptCalls = 1
                   \/ /\ run[r].pc = "write_retry"
                      /\ run'[r].depth = run[r].depth + 1
             /\ run'[r].depth = run[r].depth + 1 =>
                   rec'[run[r].jobId].video_script = run[r].sanitizedPrompt]_vars

\* a remediation round has replaced the script by a rewritten prompt and
\* the task created for it is being polled
C32_Witness ==
  \E r \in Runs :
    /\ run[r].pc = "poll"
    /\ run[r].depth = 1
    /\ hist[r].script = "Y"
    /\ Row(r).video_script = "clean-1"
    /\ run[r].originalPrompt = "clean-1"

\* the columns the image stage writes
ImageColumns(row) ==
  <<row.edited_image_url, row.human_detected, row.image_edited>>

\* C33: edited_image_url, human_detected and image_edited change only at
\* the writes of the image stage, and no step of a run that has reached the
\* script stage changes them.
C33_ImageColumnsFrozen ==
  [][\A r \in Runs :
       run[r].pc # "idle" =>
          /\ ImageColumns(rec'[run[r].jobId]) # ImageColumns(rec[run[r].jobId]) =>
                run[r].pc \in {"write_human", "write_edited", "write_optimized"}
          /\ InLog(r, "generating_script") =>
                ImageColumns(rec'[run[r].jobId]) = ImageColumns(rec[run[r].jobId])]_vars

\* a run is in a remediation round and the row still holds what the edit
\* branch of the image stage wrote
C33_Witness ==
  \E r \in Runs :
    /\ run[r].pc = "write_retry"
    /\ ImageColumns(Row(r)) = <<Published("edited"), TRUE, TRUE>>

\* C34: in one run the classifier, the image transformer, the asset
\* publisher and the script writer are each called at most once, however
\* many remediation rounds there are.
C34_StagesCalledOnce ==
  \A r \in Runs :
    /\ hist[r].detectCalls <= 1
    /\ hist[r].transformCalls <= 1
    /\ hist[r].publishCalls <= 1
    /\ hist[r].scriptCalls <= 1

\* two remediation rounds have been done by a run that called each of the
\* earlier services once
C34_Witness ==
  \E r \in Runs :
    /\ hist[r].sanitizeCalls = 2
    /\ hist[r].tasksCreated = 3
    /\ hist[r].detectCalls = 1
    /\ hist[r].transformCalls = 1
    /\ hist[r].publishCalls = 1
    /\ hist[r].scriptCalls = 1

\* what the caller put into the row
Inputs(row) ==
  <<row.id, row.user_id, row.listing_id, row.product_title, row.hero_image_url>>

\* C35: no step changes id, user_id, listing_id, product_title or
\* hero_image_url of a row: they stay as inserted.
C35_InputsImmutable ==
  /\ [](\A j \in Jobs : Inputs(rec[j]) = Inputs(NewRow(j)))
  /\ [][\A j \in Jobs : Inputs(rec'[j]) = Inputs(rec[j])]_vars

\* a completed row, written by every stage, with the inputs of the insert
C35_Witness ==
  \E j \in Jobs :
    /\ rec[j].status = "completed"
    /\ rec[j].image_edited
    /\ rec[j].retry_count = 1
    /\ Inputs(rec[j]) = Inputs(NewRow(j))

\* C36: a poll that finds the task neither succeeded nor failed changes
\* nothing but the attempt counter: no write to the row, no call of another
\* service, and the run stays in the loop with one attempt more.
C36_PendingPollIsIdle ==
  [][\A r \in Runs :
       (run[r].pc = "poll" /\ run'[r].pc = "poll") =>
          /\ rec' = rec
          /\ run'[r] = [run[r] EXCEPT !.attempt = run[r].attempt + 1]
          /\ hist'[r] = [hist[r] EXCEPT
                           !.polls = Min(hist[r].polls + 1, maxAttempts + 1),
                           !.lastPoll = "pending"]]_vars

\* the third poll of a task has found it still pending
C36_Witness ==
  \E r \in Runs :
    /\ run[r].pc = "poll"
    /\ run[r].attempt = 3
    /\ hist[r].polls = 3
    /\ hist[r].lastPoll = "pending"

\* ---- the keyword test on its own ----

\* the words of the fail messages the test is tried on
FailWords ==
  { "guardrail", "violate", "policy", "POLICY", "copyright", "Copyright",
    "third-party", "Third-Party", "content", "Content", "internal" }

\* data.data.failMsg || '' : a missing message is the empty one
Messages ==
  UNION { [1..n -> FailWords] : n \in 0..MaxWords }

\* a run whose first poll has just come back with state 'fail' and failMsg
\* msg (line 279): the NO branch was taken, the script is "Y", one task exists
FailedPoll(msg) ==
  [Started(1, "title", "hero") EXCEPT
     !.pc = "fail",
     !.image = "optimized",
     !.processedImageUrl = Published("optimized"),
     !.videoScript = "Y",
     !.taskId = TaskId(1, 1),
     !.originalPrompt = "Y",
     !.failMsg = msg]

InitClassify ==
  /\ rec = [j \in Jobs |->
              [NewRow(j) EXCEPT
                 !.status = "generating_video",
                 !.edited_image_url = Published("optimized"),
                 !.video_script = "Y",
                 !.sora_task_id = TaskId(1, 1)]]
  /\ \E msg \in Messages :
        run = [r \in Invocations |-> IF r = 1 THEN FailedPoll(msg) ELSE IdleRun]
  /\ hist = [r \in Invocations |->
               IF r = 1
               THEN [NoHist EXCEPT
                       !.statusLog = <<"detecting_human", "generating_script",
                                       "generating_video">>,
                       !.detectCalls = 1, !.detected = "NO",
                       !.transformCalls = 1, !.publishCalls = 1,
                       !.scriptCalls = 1, !.script = "Y",
                       !.tasksCreated = 1]
               ELSE NoHist]
  /\ batch = IdleBatch

\* lines 279-300: the branch on the keyword test
Classify(r) ==
  /\ run[r].pc = "fail"
  /\ IF isGuardrailViolation(run[r].failMsg)
     THEN /\ Step(r, [run[r] EXCEPT !.pc = "sanitize", !.attempt = 0])
          /\ Polled(r, "fail, policy")
     ELSE /\ Throw(r, "Video generation failed")
          /\ Polled(r, "fail, other")
  /\ UNCHANGED rec

NextClassify ==
  \/ \E r \in Runs : Classify(r)
  \/ \E r \in Runs : Sanitize(r)
  \/ \E r \in Runs : Catch(r)

SpecClassify == InitClassify /\ [][NextClassify]_vars

\* the keyword set of the claim
ClaimedKeywords ==
  { <<"guardrail">>, <<"third-party", "content">>, <<"violate">>,
    <<"policy">>, <<"copyright">> }

\* the spellings of a keyword's word that differ from it in case only
Spellings(w) ==
  CASE w = "policy"      -> {"policy", "POLICY"}
    [] w = "copyright"   -> {"copyright", "Copyright"}
    [] w = "third-party" -> {"third-party", "Third-Party"}
    [] w = "content"     -> {"content", "Content"}
    [] OTHER             -> {w}

\* msg contains a keyword of the claim, whatever the case of its letters
ContainsKeyword(msg) ==
  \E kw \in ClaimedKeywords :
    \E i \in 1..Len(msg) :
       /\ i + Len(kw) - 1 <= Len(msg)
       /\ \A k \in 1..Len(kw) : msg[i + k - 1] \in Spellings(kw[k])

\* C37: a failure is treated as a policy violation (the run goes on to
\* sanitize) exactly when its reason contains, in any case, one of
\* guardrail, third-party content, violate, policy, copyright; otherwise,
\* and for the empty reason, the run fails.
C37_KeywordTest ==
  [][\A r \in Runs :
       run[r].pc = "fail" =>
          /\ (run'[r].pc = "sanitize") = ContainsKeyword(run[r].failMsg)
          /\ (run'[r].pc = "catch") = ~ ContainsKeyword(run[r].failMsg)
          /\ run[r].failMsg = <<>> => run'[r].pc = "catch"]_vars

\* a reason spelt with capitals has been taken for a policy violation
C37_Witness ==
  \E r \in Runs :
    /\ run[r].pc = "sanitize"
    /\ run[r].failMsg = <<"Third-Party", "Content">>
    /\ hist[r].lastPoll = "fail, policy"

\* ---- the classifier's answer and the image stage ----

\* the handler up to the end of the image stage
NextDetect ==
  \/ \E r \in Runs, j \in Jobs : Invoke(r, j)
  \/ \E r \in Runs : Auth(r)
  \/ \E r \in Runs : SetDetecting(r)
  \/ \E r \in Runs : Download(r)
  \/ \E r \in Runs : DetectToken(r)
  \/ \E r \in Runs : WriteHuman(r)
  \/ \E r \in Runs : SetEditing(r)
  \/ \E r \in Runs : RemoveHuman(r)
  \/ \E r \in Runs : UploadEdited(r)
  \/ \E r \in Runs : WriteEdited(r)
  \/ \E r \in Runs : Resize(r)
  \/ \E r \in Runs : UploadOptimized(r)
  \/ \E r \in Runs : WriteOptimized(r)
  \/ \E r \in Runs : Catch(r)

SpecDetect == Init /\ [][NextDetect]_vars

\* the answers that are YES once trimmed and upper-cased
YesTokens == { "YES", "yes", "Yes", " YES\n" }

EditPositions == {"set_editing", "remove", "upload_edited", "write_edited"}

OptimizePositions == {"resize", "upload_optimized", "write_optimized"}

\* C38: the classifier's answer counts as a detected human exactly when,
\* trimmed and upper-cased, it is YES; any other answer, and a response
\* without text, gives false: human_detected is written false and the
\* optimize branch is taken.
C38_TokenToBoolean ==
  \A r \in Runs :
    hist[r].detectCalls = 1 /\ hist[r].detected # NULL =>
       /\ hist[r].detected = (IF hist[r].token \in YesTokens THEN "YES" ELSE "NO")
       /\ run[r].pc = "write_human" =>
             run[r].humanDetected = (hist[r].token \in YesTokens)
       /\ run[r].pc \in EditPositions => hist[r].token \in YesTokens
       /\ run[r].pc \in OptimizePositions =>
             /\ hist[r].token \notin YesTokens
             /\ ~ Row(r).human_detected
       /\ run[r].pc \in EditPositions \cup OptimizePositions \cup {"set_script"} =>
             Row(r).human_detected = (hist[r].token \in YesTokens)

\* the classifier answered YES with blanks around it and the edit branch
\* was taken
C38_Witness ==
  \E r \in Runs :
    /\ hist[r].token = " YES\n"
    /\ run[r].pc = "remove"
    /\ Row(r).human_detected

====
